---- MODULE Spec2Model ----
(***************************************************************************)
(* Model of the swii front end: the typed IPC command pipeline             *)
(* (lib/tauri/client.ts, lib/tauri/commands.ts), the overlay visibility    *)
(* coordinator (OverlayStore) and the page's global-shortcut dispatcher.   *)
(***************************************************************************)
EXTENDS Integers, Sequences, FiniteSets, TLC

(***************************************************************************)
(* Bounds of the model.                                                     *)
(***************************************************************************)
\* command executions that may be in flight side by side
MaxCalls == 2
\* checkVisibility queries that may be in flight side by side
MaxPolls == 2
\* toggle() calls made over a run
MaxToggles == 2
\* visibility changes made by others than this front end over a run
MaxExternal == 1
\* hotkey events delivered over a run
MaxEvents == 4

(***************************************************************************)
(* JavaScript values.  Primitive and opaque values are strings; the        *)
(* values the code tests for truthiness keep their JavaScript truthiness.  *)
(***************************************************************************)
JsUndefined == "undefined"
JsNull == "null"
EmptyString == "''"

\* ToBoolean of the values of this model: undefined, null and the empty
\* string are falsy, every other value (objects, Errors, non-empty strings)
\* is truthy.
Truthy(v) == v \notin {JsUndefined, JsNull, EmptyString}

\* The Error thrown by makeCommandFn outside a Tauri context.
ContextError == "Error(Tauri commands can only be executed in Tauri environment)"

\* What dereferencing result.data throws when result.data is null.
TypeErrorNullData == "TypeError(null is not an object)"

\* Causes a rejected invoke() carries: whatever the backend or the IPC layer
\* passed to reject(): an Error, a message string, possibly an empty one.
Causes == {"Error(ipc)", "'window not found'", EmptyString}

\* Messages of a backend-reported failure (CommandFailure.error).
BackendErrors == {"'E'", EmptyString}

\* Payloads of a backend-reported success (CommandSuccess.data).
Payloads == {"WindowInfo[]", JsNull}

\* The declared commands and the argument each is executed with.
CommandNames ==
  {"bring_window_to_front", "list_editor_windows", "log_from_frontend",
   "log_from_frontend_with_data", "open_devtools"}

VoidCommands == {"list_editor_windows", "open_devtools"}

\* A call written without an argument: execute().
NoArgument == "<no argument>"

\* What a caller passes: a void command is called as execute() or as
\* execute(undefined), the others with their argument object.
ArgsOf(name) ==
  IF name \in VoidCommands
    THEN {NoArgument, JsUndefined}
    ELSE {"{args of " \o name \o "}"}

\* The value of the optional parameter `args?` for what the caller passed:
\* an omitted argument reads undefined.
Param(given) == IF given = NoArgument THEN JsUndefined ELSE given

\* defineCommand: `args ? commandFn(args) : commandFn()`, what it passes on.
defineCommandForwards(args) == IF Truthy(args) THEN args ELSE NoArgument

\* CommandResult<T>: CommandSuccess<T> | CommandFailure.
CommandSuccess(d) == [success |-> TRUE, data |-> d, error |-> JsNull]
CommandFailure(e) == [success |-> FALSE, data |-> JsNull, error |-> e]

CommandResult ==
  {CommandSuccess(d) : d \in Payloads} \cup {CommandFailure(e) : e \in BackendErrors}

\* Settled promises.
Fulfilled(v) == [state |-> "fulfilled", value |-> v]
Rejected(r) == [state |-> "rejected", reason |-> r]
Pending == [state |-> "pending"]

\* The data of a failed Result is null.
NullData == [isNull |-> TRUE]

\* tryCatch(promise): awaits the promise in a guarded scope.
tryCatch(settled) ==
  IF settled.state = "fulfilled"
    THEN [data |-> settled.value, error |-> JsNull]
    ELSE [data |-> NullData, error |-> settled.reason]

\* flattenCommandResult as a bug would write it: the backend's failure flag
\* is ignored.
flattenIgnoringFlag(result) ==
  IF Truthy(result.error)
    THEN Fulfilled([kind |-> "transport_error", error |-> result.error])
    ELSE IF result.data = NullData
      THEN Rejected(TypeErrorNullData)
      ELSE Fulfilled([kind |-> "success", data |-> result.data.data])

\* flattenCommandResult(result), as the settlement of the async function that
\* returns it: a fulfilled flat result, or the TypeError of result.data.success
\* on a null result.data.
flattenCommandResult(result) ==
  IF Truthy(result.error)
    THEN Fulfilled([kind |-> "transport_error", error |-> result.error])
    ELSE IF result.data = NullData
      THEN Rejected(TypeErrorNullData)
      ELSE IF result.data.success
        THEN Fulfilled([kind |-> "success", data |-> result.data.data])
        ELSE Fulfilled([kind |-> "command_error", error |-> result.data.error])

\* The arguments of the invoke() call makeCommandFn issues.
NoPayload == [absent |-> TRUE]

\* makeCommandFn as a bug would write it: the payload is always passed.
InvokeCallAlwaysPayload(name, args) == [cmd |-> name, payload |-> [args |-> args]]

\* makeCommandFn: `args ? invoke(name, { args }) : invoke(name)`.
InvokeCall(name, args) ==
  [cmd |-> name, payload |-> IF Truthy(args) THEN [args |-> args] ELSE NoPayload]

\* isCommandError(result)
isCommandError(flat) == flat.kind \in {"transport_error", "command_error"}

(***************************************************************************)
(* Overlay coordinator (OverlayStore) and page: helpers.                   *)
(***************************************************************************)
\* An empty reaction slot (onShowCallback / onHideCallback = null).
NoCallback == "null"
\* The closures +page.svelte registers on mount.
PageOnShow == "page.onShow"
PageOnHide == "page.onHide"

\* The ids global-shortcut events carry.
KeyIds == {1, 2}
HotkeyEvents == [id : KeyIds, state : {"Pressed", "Released"}]

RemoveAt(s, i) == SubSeq(s, 1, i - 1) \o SubSeq(s, i + 1, Len(s))

\* A native visibility answer as a poll keeps it while in flight.
Answer(b) == IF b THEN "T" ELSE "F"

\* checkVisibility's callback dispatch as a bug would write it: the
\* `visible !== wasVisible` test is missing.
firedOnEveryTick(visible, wasVisible, showCb, hideCb) ==
  IF visible /\ showCb # NoCallback
    THEN <<[slot |-> "onShow", cb |-> showCb]>>
    ELSE IF ~visible /\ hideCb # NoCallback
      THEN <<[slot |-> "onHide", cb |-> hideCb]>>
      ELSE <<>>

\* The callbacks checkVisibility invokes once the query has returned
\* `visible` while the recorded value is `wasVisible`.
checkVisibilityFired(visible, wasVisible, showCb, hideCb) ==
  IF visible # wasVisible
    THEN IF visible /\ showCb # NoCallback
      THEN <<[slot |-> "onShow", cb |-> showCb]>>
      ELSE IF ~visible /\ hideCb # NoCallback
        THEN <<[slot |-> "onHide", cb |-> hideCb]>>
        ELSE <<>>
    ELSE <<>>

\* toggle()'s choice of direction as a bug would write it: from the cached
\* isVisible instead of the value just read.
toggleFromCache(read, cached) == IF cached THEN "hide" ELSE "show"

\* toggle(): `if (visible) await this.hide(); else await this.show();`
toggleDirection(read, cached) == IF read THEN "hide" ELSE "show"

VARIABLES
  inTauri,         \* isTauri(): '__TAURI_INTERNALS__' in window
  cmds,            \* the command executions, one record per slot
  isVisible,       \* OverlayStore.isVisible
  onShowCallback,  \* OverlayStore.onShowCallback
  onHideCallback,  \* OverlayStore.onHideCallback
  intervalId,      \* OverlayStore.intervalId: 0 is null
  timerOn,         \* the interval is scheduled and not cleared
  nativeVisible,   \* the native window's visibility
  polls,           \* checkVisibility runs awaiting win.isVisible(), oldest first
  overtaken,       \* per run in polls: a run started after it has already
                   \* completed with a value
  newest,          \* the value returned by the latest-started run among those
                   \* that completed with a value; FALSE while there is none
  toggles,         \* the toggle() calls made so far, oldest first
  fired,           \* the callbacks invoked by the last step
  lastPoll,        \* how the last completed checkVisibility query ended: "none",
                   \* "throw", "ok", or "recovered" for an ok right after a throw
  pagePc,          \* +page.svelte: "created", "mounted", "unmounted"
  bringing,        \* handleBringWindowToFront calls awaiting bringWindowToFront
  extChanges,      \* visibility changes made by others than this front end
  down,            \* wrappedHandler's set of currently-down ids
  events,          \* the hotkey events delivered so far
  toggledAt,       \* the positions in events at which toggle() was called
  lastCallback,    \* the slot of the callback invoked last, "none" before any
  lastRegistered,  \* per slot, the callback passed to the last setOnShow /
                   \* setOnHide call, NoCallback before any
  isLoading,       \* EditorWindowsStore.isLoading
  windows,         \* EditorWindowsStore.windows
  errors,          \* DevErrorsStore.errors, the messages
  dev              \* `dev` of $app/environment

cmdVars == <<inTauri, cmds>>
keyVars == <<down, events, toggledAt>>
overlayVars ==
  <<isVisible, onShowCallback, onHideCallback, intervalId, timerOn, nativeVisible,
    polls, overtaken, newest, toggles, fired, lastPoll, pagePc, bringing, extChanges,
    down, events, toggledAt>>
vars ==
  <<inTauri, cmds, isVisible, onShowCallback, onHideCallback, intervalId, timerOn,
    nativeVisible, polls, overtaken, newest, toggles, fired, lastPoll, pagePc, bringing,
    extChanges, down, events, toggledAt, lastCallback, lastRegistered, isLoading,
    windows, errors, dev>>
pollHist == <<overtaken, newest>>
callbackHist == <<lastCallback, lastRegistered>>
storeVars == <<isLoading, windows, errors, dev>>
restVars == <<callbackHist, storeVars>>

Slots == 1..MaxCalls

IdleCmd ==
  [pc |-> "idle", name |-> "", args |-> JsUndefined, invoked |-> <<>>,
   raw |-> Pending, out |-> Pending]

\* The overlay after module load: `new OverlayStore()` has run, its first
\* checkVisibility awaits win.isVisible(), the page is not mounted yet.
InitOverlay ==
  /\ isVisible = FALSE
  /\ onShowCallback = NoCallback
  /\ onHideCallback = NoCallback
  /\ intervalId = 0
  /\ timerOn = FALSE
  /\ nativeVisible \in BOOLEAN
  /\ polls = <<"sent">>
  /\ overtaken = <<FALSE>>
  /\ newest = FALSE
  /\ toggles = <<>>
  /\ fired = <<>>
  /\ lastPoll = "none"
  /\ pagePc = "created"
  /\ bringing = 0
  /\ extChanges = 0
  /\ down = {}
  /\ events = <<>>
  /\ toggledAt = {}
  /\ lastCallback = "none"
  /\ lastRegistered = [onShow |-> NoCallback, onHide |-> NoCallback]
  /\ isLoading = FALSE
  /\ windows = "[]"
  /\ errors = <<>>

InitCmd ==
  /\ inTauri \in BOOLEAN
  /\ cmds = [s \in Slots |-> IdleCmd]
  /\ InitOverlay
  /\ dev = TRUE

\* The rest of defineCommand's closure once commandPromise has settled:
\* await tryCatch(commandPromise), then flattenCommandResult.
Settle(s, settled) ==
  cmds' = [cmds EXCEPT ![s].pc = "settled",
                       ![s].raw = settled,
                       ![s].out = flattenCommandResult(tryCatch(settled))]

\* commands.<name>(args) inside a Tauri context: makeCommandFn calls invoke.
Execute(s, name, args) ==
  /\ cmds[s].pc = "idle"
  /\ inTauri
  /\ cmds' = [cmds EXCEPT ![s] =
       [pc |-> "invoking", name |-> name, args |-> args,
        invoked |-> <<InvokeCall(name, Param(defineCommandForwards(Param(args))))>>,
        raw |-> Pending, out |-> Pending]]
  /\ UNCHANGED <<inTauri, overlayVars, restVars>>

\* makeCommandFn as a bug would write it: without the isTauri() test, the
\* call is attempted.
ExecuteOutsideTauriInvokes(s, name, args) ==
  /\ cmds[s].pc = "idle"
  /\ ~inTauri
  /\ cmds' = [cmds EXCEPT ![s] =
       [pc |-> "invoking", name |-> name, args |-> args,
        invoked |-> <<InvokeCall(name, Param(defineCommandForwards(Param(args))))>>,
        raw |-> Pending, out |-> Pending]]
  /\ UNCHANGED <<inTauri, overlayVars, restVars>>

\* commands.<name>(args) outside a Tauri context: makeCommandFn throws before
\* invoke, so commandPromise is rejected with the context error.
ExecuteOutsideTauri(s, name, args) ==
  /\ cmds[s].pc = "idle"
  /\ ~inTauri
  /\ cmds' = [cmds EXCEPT ![s] =
       [pc |-> "settled", name |-> name, args |-> args, invoked |-> <<>>,
        raw |-> Rejected(ContextError),
        out |-> flattenCommandResult(tryCatch(Rejected(ContextError)))]]
  /\ UNCHANGED <<inTauri, overlayVars, restVars>>

InvokeResolves(s, env) ==
  /\ cmds[s].pc = "invoking"
  /\ Settle(s, Fulfilled(env))
  /\ UNCHANGED <<inTauri, overlayVars, restVars>>

\* defineCommand as a bug would write it: a rejected call is issued once
\* more before the failure is reported.
InvokeRejectsRetries(s, cause) ==
  /\ cmds[s].pc = "invoking"
  /\ IF Len(cmds[s].invoked) < 2
       THEN cmds' = [cmds EXCEPT ![s].invoked = Append(@, @[1])]
       ELSE Settle(s, Rejected(cause))
  /\ UNCHANGED <<inTauri, overlayVars, restVars>>

\* invoke() rejects with `cause`.
InvokeRejects(s, cause) ==
  /\ cmds[s].pc = "invoking"
  /\ Settle(s, Rejected(cause))
  /\ UNCHANGED <<inTauri, overlayVars, restVars>>

\* The caller has consumed the result; the slot is free for the next call.
Consume(s) ==
  /\ cmds[s].pc = "settled"
  /\ cmds' = [cmds EXCEPT ![s] = IdleCmd]
  /\ UNCHANGED <<inTauri, overlayVars, restVars>>

DoExecute == \E s \in Slots, n \in CommandNames : \E a \in ArgsOf(n) : Execute(s, n, a)
DoExecuteOutsideTauri ==
  \E s \in Slots, n \in CommandNames : \E a \in ArgsOf(n) : ExecuteOutsideTauri(s, n, a)
DoInvokeResolves == \E s \in Slots, env \in CommandResult : InvokeResolves(s, env)
DoInvokeRejects == \E s \in Slots, c \in Causes : InvokeRejects(s, c)
DoConsume == \E s \in Slots : Consume(s)

NextCmd ==
  \/ DoExecute
  \/ DoExecuteOutsideTauri
  \/ DoInvokeResolves
  \/ DoInvokeRejects
  \/ DoConsume

SpecCmd == InitCmd /\ [][NextCmd]_vars

(***************************************************************************)
(* The overlay coordinator, the native window and the page.                *)
(***************************************************************************)
Init ==
  /\ inTauri = TRUE
  /\ cmds = [s \in Slots |-> IdleCmd]
  /\ InitOverlay
  /\ dev = TRUE

callbackVars == <<onShowCallback, onHideCallback>>
pageVars == <<pagePc, bringing>>

\* The value checkVisibility records, as a bug would write it: only a change
\* to visible is recorded.
checkVisibilityRecordsShowOnly(visible, wasVisible) == visible \/ wasVisible

\* The value checkVisibility records once the query has returned `visible`.
checkVisibilityRecorded(visible, wasVisible) ==
  IF visible # wasVisible THEN visible ELSE wasVisible

\* startVisibilityCheck after `await checkVisibility()`: the interval is
\* started once, when the constructor's own check has completed.
StartIntervalIfFirst ==
  IF intervalId = 0
    THEN intervalId' = 1 /\ timerOn' = TRUE
    ELSE UNCHANGED <<intervalId, timerOn>>

\* The interval fires: checkVisibility starts and calls win.isVisible().
Tick ==
  /\ timerOn
  /\ Len(polls) < MaxPolls
  /\ polls' = Append(polls, "sent")
  /\ overtaken' = Append(overtaken, FALSE)
  /\ fired' = <<>>
  /\ UNCHANGED <<newest, isVisible, callbackVars, intervalId, timerOn, nativeVisible, toggles,
                 lastPoll, pageVars, extChanges, keyVars, cmdVars, restVars>>

\* The native layer answers a checkVisibility query with the visibility of
\* that moment.
NativeAnswersPoll(i) ==
  /\ polls[i] = "sent"
  /\ polls' = [polls EXCEPT ![i] = Answer(nativeVisible)]
  /\ fired' = <<>>
  /\ UNCHANGED <<pollHist, isVisible, callbackVars, intervalId, timerOn, nativeVisible, toggles,
                 lastPoll, pageVars, extChanges, keyVars, cmdVars, restVars>>

\* The native layer fails a checkVisibility query.
NativeFailsPoll(i) ==
  /\ polls[i] = "sent"
  /\ polls' = [polls EXCEPT ![i] = "X"]
  /\ fired' = <<>>
  /\ UNCHANGED <<pollHist, isVisible, callbackVars, intervalId, timerOn, nativeVisible, toggles,
                 lastPoll, pageVars, extChanges, keyVars, cmdVars, restVars>>

\* checkVisibility resumes with the value of win.isVisible().
PollResolved(i) ==
  /\ polls[i] \in {"T", "F"}
  /\ LET visible == (polls[i] = "T") IN
       /\ isVisible' = checkVisibilityRecorded(visible, isVisible)
       /\ fired' = checkVisibilityFired(visible, isVisible, onShowCallback, onHideCallback)
  /\ polls' = RemoveAt(polls, i)
  /\ overtaken' = RemoveAt([j \in DOMAIN overtaken |-> overtaken[j] \/ j < i], i)
  /\ newest' = IF overtaken[i] THEN newest ELSE polls[i] = "T"
  /\ lastPoll' = IF lastPoll = "throw" THEN "recovered" ELSE "ok"
  /\ StartIntervalIfFirst
  /\ UNCHANGED <<callbackVars, nativeVisible, toggles, pageVars, extChanges, keyVars,
                 cmdVars, lastRegistered, storeVars>>

\* checkVisibility as a bug would write its catch block: the failure resets
\* the recorded state.
PollThrewResetsState(i) ==
  /\ polls[i] = "X"
  /\ polls' = RemoveAt(polls, i)
  /\ overtaken' = RemoveAt(overtaken, i)
  /\ newest' = newest
  /\ lastPoll' = "throw"
  /\ fired' = <<>>
  /\ isVisible' = FALSE
  /\ StartIntervalIfFirst
  /\ UNCHANGED <<callbackVars, nativeVisible, toggles, pageVars, extChanges, keyVars,
                 cmdVars, restVars>>

\* checkVisibility as a bug would write its catch block: the failure clears
\* the interval.
PollThrewStopsLoop(i) ==
  /\ polls[i] = "X"
  /\ polls' = RemoveAt(polls, i)
  /\ overtaken' = RemoveAt(overtaken, i)
  /\ newest' = newest
  /\ lastPoll' = "throw"
  /\ fired' = <<>>
  /\ intervalId' = 1
  /\ timerOn' = FALSE
  /\ UNCHANGED <<isVisible, callbackVars, nativeVisible, toggles, pageVars, extChanges,
                 keyVars, cmdVars, restVars>>

\* checkVisibility resumes with win.isVisible() throwing: the catch block
\* logs the error.
PollThrew(i) ==
  /\ polls[i] = "X"
  /\ polls' = RemoveAt(polls, i)
  /\ overtaken' = RemoveAt(overtaken, i)
  /\ newest' = newest
  /\ lastPoll' = "throw"
  /\ fired' = <<>>
  /\ StartIntervalIfFirst
  /\ UNCHANGED <<isVisible, callbackVars, nativeVisible, toggles, pageVars, extChanges,
                 keyVars, cmdVars, restVars>>

\* A toggle() call that has just started: it awaits win.isVisible().
\* `saw` is the value it read ("T", "F", or "X" for a throw), `req` the
\* visibility request it sent to the native layer; it ends "done", or
\* "failed" when a native call of it threw.
NewToggle == [pc |-> "read", saw |-> "none", req |-> "none"]

\* The promise a toggle() call has returned to its caller: pending while a
\* native call of it is awaited, fulfilled with undefined once the function
\* has returned, be it through one of the catch blocks.
togglePromise(t) ==
  IF t.pc \in {"done", "failed"}
    THEN Fulfilled(JsUndefined)
    ELSE IF t.pc = "rejected" THEN Rejected("Error(native)") ELSE Pending

\* toggle() resumes with the value of win.isVisible() and calls hide() or
\* show(), which sends the request to the native layer.
ToggleRead(i) ==
  /\ toggles[i].pc = "read"
  /\ LET dir == toggleDirection(nativeVisible, isVisible) IN
       toggles' = [toggles EXCEPT ![i] =
                     [pc |-> dir, saw |-> Answer(nativeVisible), req |-> dir]]
  /\ fired' = <<>>
  /\ UNCHANGED <<isVisible, callbackVars, intervalId, timerOn, nativeVisible, polls, pollHist,
                 lastPoll, pageVars, extChanges, keyVars, cmdVars, restVars>>

\* toggle() resumes with win.isVisible() throwing: its catch block logs.
ToggleReadThrows(i) ==
  /\ toggles[i].pc = "read"
  /\ toggles' = [toggles EXCEPT ![i].pc = "failed", ![i].saw = "X"]
  /\ fired' = <<>>
  /\ UNCHANGED <<isVisible, callbackVars, intervalId, timerOn, nativeVisible, polls, pollHist,
                 lastPoll, pageVars, extChanges, keyVars, cmdVars, restVars>>

\* show() as a bug would write it: the recorded state is flipped by the
\* command instead of by the poll.
NativeShowSetsState(i) ==
  /\ toggles[i].pc = "show"
  /\ nativeVisible' = TRUE
  /\ isVisible' = TRUE
  /\ toggles' = [toggles EXCEPT ![i].pc = "focus"]
  /\ fired' = <<>>
  /\ UNCHANGED <<callbackVars, intervalId, timerOn, polls, pollHist, lastPoll, pageVars,
                 extChanges, keyVars, cmdVars, restVars>>

\* show() as a bug would write it: the onShow callback is invoked by the
\* command.
NativeShowFiresOnShow(i) ==
  /\ toggles[i].pc = "show"
  /\ nativeVisible' = TRUE
  /\ toggles' = [toggles EXCEPT ![i].pc = "focus"]
  /\ fired' = <<[slot |-> "onShow", cb |-> onShowCallback]>>
  /\ UNCHANGED <<isVisible, callbackVars, intervalId, timerOn, polls, pollHist, lastPoll,
                 pageVars, extChanges, keyVars, cmdVars, restVars>>

\* win.show() succeeds; show() goes on to win.setFocus().
NativeShow(i) ==
  /\ toggles[i].pc = "show"
  /\ nativeVisible' = TRUE
  /\ toggles' = [toggles EXCEPT ![i].pc = "focus"]
  /\ fired' = <<>>
  /\ UNCHANGED <<isVisible, callbackVars, intervalId, timerOn, polls, pollHist, lastPoll, pageVars,
                 extChanges, keyVars, cmdVars, restVars>>

\* show() as a bug would write it: win.show() has a catch block of its own
\* and win.setFocus() is called after it, whether win.show() threw or not.
NativeShowThrowsThenFocus(i) ==
  /\ toggles[i].pc = "show"
  /\ toggles' = [toggles EXCEPT ![i].pc = "focus"]
  /\ fired' = <<>>
  /\ UNCHANGED <<isVisible, callbackVars, intervalId, timerOn, nativeVisible, polls, pollHist,
                 lastPoll, pageVars, extChanges, keyVars, cmdVars, restVars>>

\* win.show() throws; the catch block of show() logs.
NativeShowThrows(i) ==
  /\ toggles[i].pc = "show"
  /\ toggles' = [toggles EXCEPT ![i].pc = "failed"]
  /\ fired' = <<>>
  /\ UNCHANGED <<isVisible, callbackVars, intervalId, timerOn, nativeVisible, polls, pollHist,
                 lastPoll, pageVars, extChanges, keyVars, cmdVars, restVars>>

\* win.setFocus() completes or throws: either way show() returns.
NativeFocus(i) ==
  /\ toggles[i].pc = "focus"
  /\ toggles' = [toggles EXCEPT ![i].pc = "done"]
  /\ fired' = <<>>
  /\ UNCHANGED <<isVisible, callbackVars, intervalId, timerOn, nativeVisible, polls, pollHist,
                 lastPoll, pageVars, extChanges, keyVars, cmdVars, restVars>>

\* win.hide() succeeds; hide() returns.
NativeHide(i) ==
  /\ toggles[i].pc = "hide"
  /\ nativeVisible' = FALSE
  /\ toggles' = [toggles EXCEPT ![i].pc = "done"]
  /\ fired' = <<>>
  /\ UNCHANGED <<isVisible, callbackVars, intervalId, timerOn, polls, pollHist, lastPoll, pageVars,
                 extChanges, keyVars, cmdVars, restVars>>

\* hide() as a bug would write it: no try/catch, the error of win.hide()
\* propagates through toggle() to its caller.
NativeHideThrowsUncaught(i) ==
  /\ toggles[i].pc = "hide"
  /\ toggles' = [toggles EXCEPT ![i].pc = "rejected"]
  /\ fired' = <<>>
  /\ UNCHANGED <<isVisible, callbackVars, intervalId, timerOn, nativeVisible, polls, pollHist,
                 lastPoll, pageVars, extChanges, keyVars, cmdVars, restVars>>

\* win.hide() throws; the catch block of hide() logs.
NativeHideThrows(i) ==
  /\ toggles[i].pc = "hide"
  /\ toggles' = [toggles EXCEPT ![i].pc = "failed"]
  /\ fired' = <<>>
  /\ UNCHANGED <<isVisible, callbackVars, intervalId, timerOn, nativeVisible, polls, pollHist,
                 lastPoll, pageVars, extChanges, keyVars, cmdVars, restVars>>

\* The window is shown or hidden by something else than this front end.
ExternalChange ==
  /\ extChanges < MaxExternal
  /\ extChanges' = extChanges + 1
  /\ nativeVisible' = ~nativeVisible
  /\ fired' = <<>>
  /\ UNCHANGED <<isVisible, callbackVars, intervalId, timerOn, polls, pollHist, toggles, lastPoll,
                 pageVars, keyVars, cmdVars, restVars>>

\* onMount: the page registers its callbacks and the hotkey handler.
Mount ==
  /\ pagePc = "created"
  /\ pagePc' = "mounted"
  /\ onHideCallback' = PageOnHide
  /\ onShowCallback' = PageOnShow
  /\ lastRegistered' = [onShow |-> PageOnShow, onHide |-> PageOnHide]
  /\ down' = {}
  /\ fired' = <<>>
  /\ UNCHANGED <<isVisible, intervalId, timerOn, nativeVisible, polls, pollHist, toggles, lastPoll,
                 bringing, extChanges, events, toggledAt, cmdVars, lastCallback, storeVars>>

\* The cleanup returned by onMount: unregister the hotkey, overlayStore.destroy().
Unmount ==
  /\ pagePc = "mounted"
  /\ pagePc' = "unmounted"
  /\ timerOn' = IF intervalId # 0 THEN FALSE ELSE timerOn
  /\ fired' = <<>>
  /\ UNCHANGED <<isVisible, callbackVars, intervalId, nativeVisible, polls, pollHist, toggles,
                 lastPoll, bringing, extChanges, keyVars, cmdVars, restVars>>

\* A window is chosen in the list: handleBringWindowToFront awaits
\* editorWindowsStore.bringWindowToFront.
SelectWindow ==
  /\ pagePc = "mounted"
  /\ Len(toggles) + bringing < MaxToggles
  /\ bringing' = bringing + 1
  /\ fired' = <<>>
  /\ UNCHANGED <<isVisible, callbackVars, intervalId, timerOn, nativeVisible, polls, pollHist,
                 toggles, lastPoll, pagePc, extChanges, keyVars, cmdVars, restVars>>

\* How the invoke() under a command can end.
RawOutcomes ==
  {Fulfilled(env) : env \in CommandResult} \cup {Rejected(c) : c \in Causes}

\* commands.bringWindowToFront settles; handleBringWindowToFront goes on to
\* overlayStore.toggle() unless the awaited call rejected.
BringSettled(raw) ==
  /\ bringing > 0
  /\ bringing' = bringing - 1
  /\ toggles' = IF flattenCommandResult(tryCatch(raw)).state = "fulfilled"
                  THEN Append(toggles, NewToggle)
                  ELSE toggles
  /\ fired' = <<>>
  /\ UNCHANGED <<isVisible, callbackVars, intervalId, timerOn, nativeVisible, polls, pollHist,
                 lastPoll, pagePc, extChanges, keyVars, cmdVars, restVars>>

\* wrappedHandler as a bug would write it: a release leaves `down` alone.
wrappedHandlerKeepsDown(e) ==
  /\ pagePc = "mounted"
  /\ Len(events) < MaxEvents
  /\ e.state = "Pressed" /\ e.id \notin down => Len(toggles) < MaxToggles
  /\ events' = Append(events, e)
  /\ IF e.state = "Pressed" /\ e.id \notin down
       THEN /\ down' = down \cup {e.id}
            /\ toggles' = Append(toggles, NewToggle)
            /\ toggledAt' = toggledAt \cup {Len(events) + 1}
       ELSE UNCHANGED <<down, toggles, toggledAt>>
  /\ fired' = <<>>
  /\ UNCHANGED <<isVisible, callbackVars, intervalId, timerOn, nativeVisible, polls, pollHist,
                 lastPoll, pageVars, extChanges, cmdVars, restVars>>

\* wrappedHandler as a bug would write it: the id is never added to `down`.
wrappedHandlerNoAdd(e) ==
  /\ pagePc = "mounted"
  /\ Len(events) < MaxEvents
  /\ e.state = "Pressed" /\ e.id \notin down => Len(toggles) < MaxToggles
  /\ events' = Append(events, e)
  /\ IF e.state = "Pressed"
       THEN IF e.id \in down
         THEN UNCHANGED <<down, toggles, toggledAt>>
         ELSE /\ down' = down
              /\ toggles' = Append(toggles, NewToggle)
              /\ toggledAt' = toggledAt \cup {Len(events) + 1}
       ELSE /\ down' = down \ {e.id}
            /\ UNCHANGED <<toggles, toggledAt>>
  /\ fired' = <<>>
  /\ UNCHANGED <<isVisible, callbackVars, intervalId, timerOn, nativeVisible, polls, pollHist,
                 lastPoll, pageVars, extChanges, cmdVars, restVars>>

\* The ids whose press has called a toggle() that has not resolved yet: the
\* k-th toggle() call belongs to the k-th position of toggledAt.
TogglePosition(k) ==
  CHOOSE p \in toggledAt : Cardinality({q \in toggledAt : q <= p}) = k
AwaitedIds ==
  {events[TogglePosition(k)].id :
     k \in {j \in DOMAIN toggles : j <= Cardinality(toggledAt)
                                   /\ togglePromise(toggles[j]) = Pending}}

\* wrappedHandler as a bug would write it: down.add(e.id) comes after the
\* await, so that the id is not in the set while its toggle() is in flight.
wrappedHandlerAddsAfterAwait(e) ==
  /\ pagePc = "mounted"
  /\ Len(events) < MaxEvents
  /\ e.state = "Pressed" /\ e.id \notin (down \ AwaitedIds) => Len(toggles) < MaxToggles
  /\ events' = Append(events, e)
  /\ IF e.state = "Pressed"
       THEN IF e.id \in (down \ AwaitedIds)
         THEN UNCHANGED <<down, toggles, toggledAt>>
         ELSE /\ down' = down \cup {e.id}
              /\ toggles' = Append(toggles, NewToggle)
              /\ toggledAt' = toggledAt \cup {Len(events) + 1}
       ELSE /\ down' = down \ {e.id}
            /\ UNCHANGED <<toggles, toggledAt>>
  /\ fired' = <<>>
  /\ UNCHANGED <<isVisible, callbackVars, intervalId, timerOn, nativeVisible, polls, pollHist,
                 lastPoll, pageVars, extChanges, cmdVars, restVars>>

\* wrappedHandler(e): the handler of the registered global shortcut.
wrappedHandler(e) ==
  /\ pagePc = "mounted"
  /\ Len(events) < MaxEvents
  /\ e.state = "Pressed" /\ e.id \notin down => Len(toggles) < MaxToggles
  /\ events' = Append(events, e)
  /\ IF e.state = "Pressed"
       THEN IF e.id \in down
         THEN UNCHANGED <<down, toggles, toggledAt>>
         ELSE /\ down' = down \cup {e.id}
              /\ toggles' = Append(toggles, NewToggle)
              /\ toggledAt' = toggledAt \cup {Len(events) + 1}
       ELSE /\ down' = down \ {e.id}
            /\ UNCHANGED <<toggles, toggledAt>>
  /\ fired' = <<>>
  /\ UNCHANGED <<isVisible, callbackVars, intervalId, timerOn, nativeVisible, polls, pollHist,
                 lastPoll, pageVars, extChanges, cmdVars, restVars>>

\* A function other than the two closures of the page.
OtherCallback == "other"
ShowCallbacks == {PageOnShow, OtherCallback}
HideCallbacks == {PageOnHide, OtherCallback}

\* setOnShow as a bug would write it: a slot once filled keeps its callback.
setOnShowKeepsFirst(callback) ==
  /\ onShowCallback' = IF onShowCallback = NoCallback THEN callback ELSE onShowCallback
  /\ lastRegistered' = [lastRegistered EXCEPT !.onShow = callback]
  /\ fired' = <<>>
  /\ UNCHANGED <<isVisible, onHideCallback, intervalId, timerOn, nativeVisible, polls, pollHist,
                 toggles, lastPoll, pageVars, extChanges, keyVars, cmdVars, lastCallback,
                 storeVars>>

\* setOnShow as a bug would write it: the callback registered is invoked at
\* once when the overlay is already recorded as visible.
setOnShowReplays(callback) ==
  /\ onShowCallback' = callback
  /\ lastRegistered' = [lastRegistered EXCEPT !.onShow = callback]
  /\ fired' = IF isVisible THEN <<[slot |-> "onShow", cb |-> callback]>> ELSE <<>>
  /\ lastCallback' = IF isVisible THEN "onShow" ELSE lastCallback
  /\ UNCHANGED <<isVisible, onHideCallback, intervalId, timerOn, nativeVisible, polls, pollHist,
                 toggles, lastPoll, pageVars, extChanges, keyVars, cmdVars, storeVars>>

\* setOnShow(callback): the slot is overwritten, nothing is invoked.
setOnShow(callback) ==
  /\ onShowCallback' = callback
  /\ lastRegistered' = [lastRegistered EXCEPT !.onShow = callback]
  /\ fired' = <<>>
  /\ UNCHANGED <<isVisible, onHideCallback, intervalId, timerOn, nativeVisible, polls, pollHist,
                 toggles, lastPoll, pageVars, extChanges, keyVars, cmdVars, lastCallback,
                 storeVars>>

\* setOnHide(callback): the slot is overwritten, nothing is invoked.
setOnHide(callback) ==
  /\ onHideCallback' = callback
  /\ lastRegistered' = [lastRegistered EXCEPT !.onHide = callback]
  /\ fired' = <<>>
  /\ UNCHANGED <<isVisible, onShowCallback, intervalId, timerOn, nativeVisible, polls, pollHist,
                 toggles, lastPoll, pageVars, extChanges, keyVars, cmdVars, lastCallback,
                 storeVars>>

\* The window is shown or hidden by something else than this front end, any
\* number of times.
WindowShownOrHidden ==
  /\ nativeVisible' = ~nativeVisible
  /\ fired' = <<>>
  /\ UNCHANGED <<isVisible, callbackVars, intervalId, timerOn, polls, pollHist, toggles, lastPoll,
                 pageVars, extChanges, keyVars, cmdVars, restVars>>

\* The slot of the callback invoked last once the callbacks f have been
\* invoked, `last` being the slot before.
Invoked(f, last) == IF f = <<>> THEN last ELSE f[Len(f)].slot

\* checkVisibility when the callback it invokes throws, as a bug would write
\* it: the callback is invoked outside the try block, so that the exception
\* leaves checkVisibility and, in the initial check, startVisibilityCheck
\* before the interval is started.
PollResolvedCallbackEscapes(i) ==
  /\ polls[i] \in {"T", "F"}
  /\ LET visible == (polls[i] = "T") IN
       /\ checkVisibilityFired(visible, isVisible, onShowCallback, onHideCallback) # <<>>
       /\ isVisible' = checkVisibilityRecorded(visible, isVisible)
       /\ fired' = checkVisibilityFired(visible, isVisible, onShowCallback, onHideCallback)
  /\ lastCallback' = Invoked(fired', lastCallback)
  /\ polls' = RemoveAt(polls, i)
  /\ overtaken' = RemoveAt([j \in DOMAIN overtaken |-> overtaken[j] \/ j < i], i)
  /\ newest' = IF overtaken[i] THEN newest ELSE polls[i] = "T"
  /\ lastPoll' = "callback threw"
  /\ UNCHANGED <<intervalId, timerOn>>
  /\ UNCHANGED <<callbackVars, nativeVisible, toggles, pageVars, extChanges, keyVars,
                 cmdVars, lastRegistered, storeVars>>

\* checkVisibility resumes with the answer of query i, the answer differs
\* from the recorded value and the callback it invokes throws: isVisible is
\* already assigned, the catch block logs the exception, and
\* startVisibilityCheck goes on.
PollResolvedCallbackThrows(i) ==
  /\ polls[i] \in {"T", "F"}
  /\ LET visible == (polls[i] = "T") IN
       /\ checkVisibilityFired(visible, isVisible, onShowCallback, onHideCallback) # <<>>
       /\ isVisible' = checkVisibilityRecorded(visible, isVisible)
       /\ fired' = checkVisibilityFired(visible, isVisible, onShowCallback, onHideCallback)
  /\ lastCallback' = Invoked(fired', lastCallback)
  /\ polls' = RemoveAt(polls, i)
  /\ overtaken' = RemoveAt([j \in DOMAIN overtaken |-> overtaken[j] \/ j < i], i)
  /\ newest' = IF overtaken[i] THEN newest ELSE polls[i] = "T"
  /\ lastPoll' = "callback threw"
  /\ StartIntervalIfFirst
  /\ UNCHANGED <<callbackVars, nativeVisible, toggles, pageVars, extChanges, keyVars,
                 cmdVars, lastRegistered, storeVars>>

DoNativeAnswersPoll == \E i \in DOMAIN polls : NativeAnswersPoll(i)
DoNativeFailsPoll == \E i \in DOMAIN polls : NativeFailsPoll(i)
DoPollResolved == \E i \in DOMAIN polls : PollResolved(i) /\ UNCHANGED lastCallback
DoPollThrew == \E i \in DOMAIN polls : PollThrew(i)
DoToggleRead == \E i \in DOMAIN toggles : ToggleRead(i)
DoToggleReadThrows == \E i \in DOMAIN toggles : ToggleReadThrows(i)
DoNativeShow == \E i \in DOMAIN toggles : NativeShow(i)
DoNativeShowThrows == \E i \in DOMAIN toggles : NativeShowThrows(i)
DoNativeFocus == \E i \in DOMAIN toggles : NativeFocus(i)
DoNativeHide == \E i \in DOMAIN toggles : NativeHide(i)
DoNativeHideThrows == \E i \in DOMAIN toggles : NativeHideThrows(i)
DoBringSettled == \E raw \in RawOutcomes : BringSettled(raw)
DoWrappedHandler == \E e \in HotkeyEvents : wrappedHandler(e)
DoSetOnShow == \E callback \in ShowCallbacks : setOnShow(callback)
DoSetOnHide == \E callback \in HideCallbacks : setOnHide(callback)
DoPollResolvedInvoking ==
  \E i \in DOMAIN polls : PollResolved(i) /\ lastCallback' = Invoked(fired', lastCallback)
DoPollResolvedCallbackThrows == \E i \in DOMAIN polls : PollResolvedCallbackThrows(i)

ToggleSteps ==
  \/ DoToggleRead
  \/ DoToggleReadThrows
  \/ DoNativeShow
  \/ DoNativeShowThrows
  \/ DoNativeFocus
  \/ DoNativeHide
  \/ DoNativeHideThrows

PollSteps ==
  \/ Tick
  \/ DoNativeAnswersPoll
  \/ DoNativeFailsPoll
  \/ DoPollResolved
  \/ DoPollThrew

(***************************************************************************)
(* The callers of the commands: the page's window selection, the editor    *)
(* windows store and the logger. A call occupies a slot of cmds; the slot  *)
(* is "returned" once the caller has resumed with the result.              *)
(***************************************************************************)
\* handleBringWindowToFront(pid, window_number): the page awaits
\* editorWindowsStore.bringWindowToFront, which awaits the command.
handleBringWindowToFront(s) ==
  /\ pagePc = "mounted"
  /\ \E a \in ArgsOf("bring_window_to_front") :
       \/ Execute(s, "bring_window_to_front", a)
       \/ ExecuteOutsideTauri(s, "bring_window_to_front", a)

\* handleBringWindowToFront as a bug would write it: the overlay is toggled
\* only when bringWindowToFront has returned true.
BringReturnedToggleOnSuccess(s) ==
  /\ cmds[s].pc = "settled"
  /\ cmds[s].name = "bring_window_to_front"
  /\ cmds' = [cmds EXCEPT ![s].pc = "returned"]
  /\ toggles' = IF cmds[s].out.state = "fulfilled" /\ ~isCommandError(cmds[s].out.value)
                  THEN Append(toggles, NewToggle)
                  ELSE toggles
  /\ fired' = <<>>
  /\ UNCHANGED <<inTauri, isVisible, callbackVars, intervalId, timerOn, nativeVisible, polls,
                 pollHist, lastPoll, pageVars, extChanges, keyVars, restVars>>

\* The command has settled: bringWindowToFront resumes and returns false
\* for a failure and true otherwise, and handleBringWindowToFront goes on to
\* overlayStore.toggle(); when the command promise rejected, both functions
\* reject at their await.
BringReturned(s) ==
  /\ cmds[s].pc = "settled"
  /\ cmds[s].name = "bring_window_to_front"
  /\ cmds' = [cmds EXCEPT ![s].pc = "returned"]
  /\ toggles' = IF cmds[s].out.state = "fulfilled"
                  THEN Append(toggles, NewToggle)
                  ELSE toggles
  /\ fired' = <<>>
  /\ UNCHANGED <<inTauri, isVisible, callbackVars, intervalId, timerOn, nativeVisible, polls,
                 pollHist, lastPoll, pageVars, extChanges, keyVars, restVars>>

\* devErrorsStore.addError(message): the errors afterwards.
addError(message) == IF dev THEN Append(errors, message) ELSE errors

\* What list_editor_windows answers: a list of windows or a failure.
ListResults ==
  {CommandSuccess(d) : d \in Payloads \ {JsNull}}
    \cup {CommandFailure(e) : e \in BackendErrors}

\* loadWindows(): isLoading is set and the command is awaited.
loadWindows(s) ==
  /\ cmds[s].pc = "idle"
  /\ isLoading' = TRUE
  /\ cmds' = [cmds EXCEPT ![s] =
       IF inTauri
         THEN [pc |-> "invoking", name |-> "list_editor_windows", args |-> NoArgument,
               invoked |-> <<InvokeCall("list_editor_windows",
                                        Param(defineCommandForwards(Param(NoArgument))))>>,
               raw |-> Pending, out |-> Pending]
         ELSE [pc |-> "settled", name |-> "list_editor_windows", args |-> NoArgument,
               invoked |-> <<>>, raw |-> Rejected(ContextError),
               out |-> flattenCommandResult(tryCatch(Rejected(ContextError)))]]
  /\ UNCHANGED <<inTauri, overlayVars, callbackHist, windows, errors, dev>>

\* invoke() of list_editor_windows resolves.
ListResolves(s, env) ==
  /\ cmds[s].name = "list_editor_windows"
  /\ InvokeResolves(s, env)

\* loadWindows() resumes with the result of the command: a failure is
\* reported and leaves the list, a success replaces it, and both clear
\* isLoading; when the command promise rejected, loadWindows rejects at its
\* await.
loadWindowsResumes(s) ==
  /\ cmds[s].pc = "settled"
  /\ cmds[s].name = "list_editor_windows"
  /\ cmds' = [cmds EXCEPT ![s].pc = "returned"]
  /\ IF cmds[s].out.state = "rejected"
       THEN UNCHANGED <<isLoading, windows, errors>>
       ELSE IF isCommandError(cmds[s].out.value)
         THEN /\ errors' = addError("Failed to load editor windows")
              /\ isLoading' = FALSE
              /\ windows' = windows
         ELSE /\ windows' = cmds[s].out.value.data
              /\ isLoading' = FALSE
              /\ errors' = errors
  /\ UNCHANGED <<inTauri, overlayVars, callbackHist, dev>>

\* The command a logger call sends: by `data !== undefined`.
LogCommands == {"log_from_frontend", "log_from_frontend_with_data"}

\* Logger.log(level, tag, message, data?): outside a Tauri context it
\* returns after the console output, inside it awaits one log command.
log(s, name) ==
  /\ cmds[s].pc = "idle"
  /\ IF inTauri
       THEN \E a \in ArgsOf(name) : Execute(s, name, a)
       ELSE /\ cmds' = [cmds EXCEPT ![s].pc = "returned"]
            /\ UNCHANGED <<inTauri, overlayVars, restVars>>

\* Logger.log as a bug would write it: a failed send is reported through
\* logger.error, which is another logger call.
logResumesLogsFailure(s) ==
  /\ cmds[s].pc = "settled"
  /\ cmds[s].name \in LogCommands
  /\ IF cmds[s].out.state = "fulfilled" /\ cmds[s].out.value.kind # "success"
       THEN /\ errors' = addError("Failed to send log to Rust")
            /\ \E t \in Slots :
                 /\ t # s
                 /\ cmds[t].pc = "idle"
                 /\ cmds' = [cmds EXCEPT ![s].pc = "returned", ![t] =
                      [pc |-> "invoking", name |-> "log_from_frontend_with_data",
                       args |-> "{args of log_from_frontend_with_data}",
                       invoked |-> <<InvokeCall("log_from_frontend_with_data",
                                        "{args of log_from_frontend_with_data}")>>,
                       raw |-> Pending, out |-> Pending]]
       ELSE /\ errors' = errors
            /\ cmds' = [cmds EXCEPT ![s].pc = "returned"]
  /\ UNCHANGED <<inTauri, overlayVars, callbackHist, isLoading, windows, dev>>

\* Logger.log resumes with the result of its command: a result that is not
\* a success goes to console.error and devErrorsStore.addError; when the
\* command promise rejected, log rejects at its await.
logResumes(s) ==
  /\ cmds[s].pc = "settled"
  /\ cmds[s].name \in LogCommands
  /\ cmds' = [cmds EXCEPT ![s].pc = "returned"]
  /\ errors' = IF cmds[s].out.state = "fulfilled" /\ cmds[s].out.value.kind # "success"
                 THEN addError("Failed to send log to Rust")
                 ELSE errors
  /\ UNCHANGED <<inTauri, overlayVars, callbackHist, isLoading, windows, dev>>

DoHandleBringWindowToFront == \E s \in Slots : handleBringWindowToFront(s)
DoBringReturned == \E s \in Slots : BringReturned(s)
DoLoadWindows == \E s \in Slots : loadWindows(s)
DoListResolves == \E s \in Slots, env \in ListResults : ListResolves(s, env)
DoLoadWindowsResumes == \E s \in Slots : loadWindowsResumes(s)
DoLog == \E s \in Slots, name \in LogCommands : log(s, name)
DoLogResumes == \E s \in Slots : logResumes(s)

\* The coordinator with its poll loop, the native window and the page's
\* window selection; the window is shown and hidden by toggle() only.
Next ==
  \/ PollSteps
  \/ ToggleSteps
  \/ Mount
  \/ Unmount
  \/ SelectWindow
  \/ DoBringSettled

Spec == Init /\ [][Next]_vars

\* The shortcut dispatcher driving the coordinator's toggle().
NextKeys ==
  \/ Mount
  \/ DoWrappedHandler
  \/ ToggleSteps

SpecKeys == Init /\ [][NextKeys]_vars

\* The poll loop alone, the window being shown and hidden by others.
NextPoll ==
  \/ PollSteps
  \/ ExternalChange
  \/ Mount
  \/ Unmount

\* The poll loop under the scheduling of the event loop: a running interval
\* keeps firing, the native layer answers every query one way or the other,
\* and a settled query resumes its checkVisibility.
FairSpec ==
  /\ Init
  /\ [][NextPoll]_vars
  /\ WF_vars(Tick)
  /\ WF_vars(DoNativeAnswersPoll \/ DoNativeFailsPoll)
  /\ WF_vars(DoPollResolved \/ DoPollThrew)

\* The poll loop with the callbacks observed: callers register callbacks at
\* any time, a callback may throw, the window is shown and hidden by others.
NextRegistered ==
  \/ Tick
  \/ DoNativeAnswersPoll
  \/ DoNativeFailsPoll
  \/ DoPollThrew
  \/ DoPollResolvedInvoking
  \/ DoPollResolvedCallbackThrows
  \/ WindowShownOrHidden
  \/ DoSetOnShow
  \/ DoSetOnHide

NextCallbacks == NextRegistered \/ Mount

SpecCallbacks == Init /\ [][NextCallbacks]_vars

\* The coordinator with both callbacks registered before the initial
\* visibility check has resolved.
InitRegistered ==
  /\ inTauri = TRUE
  /\ cmds = [s \in Slots |-> IdleCmd]
  /\ dev = TRUE
  /\ isVisible = FALSE
  /\ onShowCallback = PageOnShow
  /\ onHideCallback = PageOnHide
  /\ intervalId = 0
  /\ timerOn = FALSE
  /\ nativeVisible \in BOOLEAN
  /\ polls = <<"sent">>
  /\ overtaken = <<FALSE>>
  /\ newest = FALSE
  /\ toggles = <<>>
  /\ fired = <<>>
  /\ lastPoll = "none"
  /\ pagePc = "mounted"
  /\ bringing = 0
  /\ extChanges = 0
  /\ down = {}
  /\ events = <<>>
  /\ toggledAt = {}
  /\ lastCallback = "none"
  /\ lastRegistered = [onShow |-> PageOnShow, onHide |-> PageOnHide]
  /\ isLoading = FALSE
  /\ windows = "[]"
  /\ errors = <<>>

SpecRegistered == InitRegistered /\ [][NextRegistered]_vars

\* Window selections on the mounted page, inside and outside a Tauri
\* context.
NextSelect ==
  \/ Mount
  \/ DoHandleBringWindowToFront
  \/ DoInvokeResolves
  \/ DoInvokeRejects
  \/ DoBringReturned

SpecSelect == InitCmd /\ [][NextSelect]_vars

\* Calls of loadWindows() in any interleaving: the $effect of the page
\* starts one whenever isVisible has become true, also while an earlier one
\* is awaiting its command.
NextLoad ==
  \/ DoLoadWindows
  \/ DoListResolves
  \/ DoInvokeRejects
  \/ DoLoadWindowsResumes

SpecLoad == InitCmd /\ [][NextLoad]_vars

\* Logger calls, inside and outside a Tauri context, in a development and
\* in a production build.
InitLog ==
  /\ inTauri \in BOOLEAN
  /\ cmds = [s \in Slots |-> IdleCmd]
  /\ InitOverlay
  /\ dev \in BOOLEAN

NextLog ==
  \/ DoLog
  \/ DoInvokeResolves
  \/ DoInvokeRejects
  \/ DoLogResumes

SpecLog == InitLog /\ [][NextLog]_vars

(***************************************************************************)
(* Claims about the command pipeline (checked under SpecCmd).              *)
(***************************************************************************)
Settled(s) == cmds[s].pc = "settled"

Kinds == {"success", "transport_error", "command_error"}

\* C1: the promise a registry command returns never rejects; whatever the
\* underlying call did, it resolves to a value of exactly one of the three
\* kinds.
C1_NeverRejects ==
  \A s \in Slots :
    Settled(s) =>
      /\ cmds[s].out.state = "fulfilled"
      /\ cmds[s].out.value.kind \in Kinds

\* C2: a transport call that rejects with cause X yields
\* {kind: 'transport_error', error: X}, the cause unchanged.
C2_RejectionIsTransportError ==
  \A s \in Slots :
    Settled(s) /\ cmds[s].raw.state = "rejected" =>
      cmds[s].out = Fulfilled([kind |-> "transport_error", error |-> cmds[s].raw.reason])

\* C3: for a transport call that resolves, the success flag of the envelope
\* alone decides the kind: success=false with error E gives command_error E
\* and no data field, success=true with data D gives success D and no error
\* field.
C3_FlagDecides ==
  \A s \in Slots :
    Settled(s) /\ cmds[s].raw.state = "fulfilled" =>
      LET env == cmds[s].raw.value
          out == cmds[s].out IN
        /\ out.state = "fulfilled"
        /\ IF env.success
             THEN /\ out.value = [kind |-> "success", data |-> env.data]
                  /\ DOMAIN out.value = {"kind", "data"}
             ELSE /\ out.value = [kind |-> "command_error", error |-> env.error]
                  /\ DOMAIN out.value = {"kind", "error"}

\* A backend failure with an empty message and a backend success without
\* data have both been flattened.
C3_Witness ==
  /\ \E s \in Slots :
       /\ Settled(s)
       /\ cmds[s].raw = Fulfilled(CommandFailure(EmptyString))
       /\ cmds[s].out.value.kind = "command_error"
  /\ \E s \in Slots :
       /\ Settled(s)
       /\ cmds[s].raw = Fulfilled(CommandSuccess(JsNull))
       /\ cmds[s].out.value.kind = "success"

\* C16: outside a context where the backend is reachable the transport
\* invoke is never called and the command fails at once with the context
\* error, which the caller receives as a resolved failure result, not as a
\* rejection.
C16_FailFastOutsideTauri ==
  ~inTauri =>
    \A s \in Slots :
      /\ cmds[s].invoked = <<>>
      /\ cmds[s].pc \in {"idle", "settled"}
      /\ Settled(s) =>
           /\ cmds[s].out = Fulfilled([kind |-> "transport_error", error |-> ContextError])
           /\ isCommandError(cmds[s].out.value)

\* A command has been executed outside the Tauri context.
C16_Witness == ~inTauri /\ \E s \in Slots : Settled(s) /\ cmds[s].raw = Rejected(ContextError)

\* C17: each execution in a reachable context calls the transport invoke
\* exactly once, whether the call succeeds, returns a backend failure or
\* rejects; a failure is not followed by a retry.
C17_InvokedExactlyOnce ==
  inTauri =>
    \A s \in Slots :
      cmds[s].pc # "idle" =>
        /\ Len(cmds[s].invoked) = 1
        /\ cmds[s].invoked[1].cmd = cmds[s].name

\* One execution has ended in a rejected call and another in a backend
\* failure.
C17_Witness ==
  /\ inTauri
  /\ \E s \in Slots : Settled(s) /\ cmds[s].raw.state = "rejected"
  /\ \E s \in Slots :
       /\ Settled(s)
       /\ cmds[s].raw.state = "fulfilled"
       /\ cmds[s].out.value.kind = "command_error"

\* Slot s holds execute() and slot t execute(undefined) of the same void
\* command.
SameVoidCommandBothForms(s, t) ==
  /\ cmds[s].pc # "idle"
  /\ cmds[t].pc # "idle"
  /\ cmds[s].name \in VoidCommands
  /\ cmds[s].name = cmds[t].name
  /\ cmds[s].args = NoArgument
  /\ cmds[t].args = JsUndefined

\* C18: for a command of void argument shape, execute() and
\* execute(undefined) make the same invoke call, with the command name and
\* no argument payload, and give the same normalized result for the same
\* backend outcome.
C18_VoidFormsAgree ==
  \A s, t \in Slots :
    SameVoidCommandBothForms(s, t) =>
      /\ cmds[s].invoked = cmds[t].invoked
      /\ inTauri => cmds[s].invoked = <<[cmd |-> cmds[s].name, payload |-> NoPayload]>>
      /\ Settled(s) /\ Settled(t) /\ cmds[s].raw = cmds[t].raw => cmds[s].out = cmds[t].out

\* Both forms of a void command have been executed and have met the same
\* backend outcome.
C18_Witness ==
  /\ inTauri
  /\ \E s, t \in Slots :
       /\ SameVoidCommandBothForms(s, t)
       /\ Settled(s)
       /\ Settled(t)
       /\ cmds[s].raw = cmds[t].raw
       /\ cmds[s].raw.state = "fulfilled"

(***************************************************************************)
(* Claims about the overlay coordinator (checked under Spec).              *)
(***************************************************************************)
\* The step completes the checkVisibility run at position i of polls.
PollCompletes(i) == polls[i] # "sent" /\ polls' = RemoveAt(polls, i)

ReadOf(i) == polls[i] = "T"

SlotName(visible) == IF visible THEN "onShow" ELSE "onHide"
SlotOf(visible) == IF visible THEN onShowCallback ELSE onHideCallback

\* C4 as stated: a tick whose read differs from the recorded isVisible
\* updates isVisible and invokes exactly one callback, onShow for true and
\* onHide for false; a tick whose read equals it changes nothing and
\* invokes no callback.
C4_ExactlyOneCallback ==
  [][\A i \in DOMAIN polls :
       PollCompletes(i) /\ polls[i] # "X" =>
         IF ReadOf(i) # isVisible
           THEN /\ isVisible' = ReadOf(i)
                /\ Len(fired') = 1
                /\ fired'[1].slot = SlotName(ReadOf(i))
           ELSE /\ isVisible' = isVisible
                /\ fired' = <<>>]_vars

\* C4 as amended: a tick whose read differs from the recorded isVisible
\* updates isVisible and invokes the callback registered in the matching
\* slot exactly once and no other callback, none when that slot is empty; a
\* tick whose read equals the recorded value changes nothing and invokes no
\* callback.
C4_TickDispatch ==
  [][\A i \in DOMAIN polls :
       PollCompletes(i) /\ polls[i] # "X" =>
         IF ReadOf(i) # isVisible
           THEN /\ isVisible' = ReadOf(i)
                /\ fired' = IF SlotOf(ReadOf(i)) # NoCallback
                              THEN <<[slot |-> SlotName(ReadOf(i)), cb |-> SlotOf(ReadOf(i))]>>
                              ELSE <<>>
           ELSE /\ isVisible' = isVisible
                /\ fired' = <<>>]_vars

\* A tick has just recorded a change to visible and invoked the page's
\* onShow.
C4_Witness == isVisible /\ fired = <<[slot |-> "onShow", cb |-> PageOnShow]>>

\* C5: a tick whose query throws leaves isVisible unchanged, invokes no
\* callback, lets startVisibilityCheck go on (the constructor's check) and
\* leaves a running interval running.
C5_FailedTickHarmless ==
  [][\A i \in DOMAIN polls :
       PollCompletes(i) /\ polls[i] = "X" =>
         /\ isVisible' = isVisible
         /\ fired' = <<>>
         /\ UNCHANGED <<onShowCallback, onHideCallback>>
         /\ intervalId' = 1
         /\ timerOn' = (timerOn \/ intervalId = 0)]_vars

\* A tick of the running interval has failed and the interval still runs.
C5_Witness == lastPoll = "throw" /\ timerOn /\ Len(polls) = 0 /\ isVisible

\* The tick N+1 of the scenario: the previous query threw, this one
\* returned true, the recorded state is false.
RecoveryTick(i) ==
  PollCompletes(i) /\ polls[i] = "T" /\ lastPoll = "throw" /\ ~isVisible

\* No query in flight has failed.
NoFailedQuery == \A i \in DOMAIN polls : polls[i] # "X"

\* C6 as stated: after a tick that threw, a tick that reads true while the
\* recorded state is false sets isVisible and invokes onShow exactly once.
C6_RecoveryInvokesOnShow ==
  [][\A i \in DOMAIN polls :
       RecoveryTick(i) =>
         /\ isVisible' = TRUE
         /\ Len(fired') = 1
         /\ fired'[1].slot = "onShow"]_vars

\* C6 as amended: after a tick that threw, a tick that reads true while the
\* recorded state is false sets isVisible and invokes the registered onShow
\* callback exactly once (none when the slot is empty); and while the page
\* is not unmounted, if the native visibility stays at v and the queries
\* stop failing, isVisible is eventually v and stays v.
C6_Recovery ==
  /\ [][\A i \in DOMAIN polls :
          RecoveryTick(i) =>
            /\ isVisible' = TRUE
            /\ fired' = IF onShowCallback # NoCallback
                          THEN <<[slot |-> "onShow", cb |-> onShowCallback]>>
                          ELSE <<>>]_vars
  /\ \A v \in BOOLEAN :
       [](pagePc # "unmounted") /\ <>[](nativeVisible = v /\ NoFailedQuery)
         => <>[](isVisible = v)

\* A query threw, the next returned true, and the page's onShow has just
\* been invoked.
C6_Witness ==
  /\ lastPoll = "recovered"
  /\ isVisible
  /\ fired = <<[slot |-> "onShow", cb |-> PageOnShow]>>

\* C7: no step of show(), hide() or toggle() changes isVisible or invokes a
\* callback; isVisible changes only in a tick that read a value different
\* from the recorded one.
C7_StateIsPollDriven ==
  [][/\ toggles' # toggles => isVisible' = isVisible /\ fired' = <<>>
     /\ isVisible' # isVisible =>
          \E i \in DOMAIN polls :
            PollCompletes(i) /\ polls[i] # "X" /\ ReadOf(i) # isVisible
              /\ isVisible' = ReadOf(i)]_vars

\* A toggle() has shown the window and returned while the recorded state
\* still says hidden.
C7_Witness ==
  \E i \in DOMAIN toggles :
    toggles[i].pc = "done" /\ toggles[i].req = "show" /\ nativeVisible /\ ~isVisible

\* C8: toggle() requests hide when its own read returned true and show when
\* it returned false, whatever the cached isVisible.
C8_ToggleUsesFreshRead ==
  \A i \in DOMAIN toggles :
    /\ toggles[i].saw = "T" => toggles[i].req = "hide"
    /\ toggles[i].saw = "F" => toggles[i].req = "show"
    /\ toggles[i].saw \in {"none", "X"} => toggles[i].req = "none"

\* A toggle() has asked to hide the visible window while the cached state
\* says hidden.
C8_Witness ==
  \E i \in DOMAIN toggles : toggles[i].pc = "hide" /\ ~isVisible /\ nativeVisible

\* C9: two toggle() calls in immediate succession, no poll-confirmed
\* transition between them, make the native layer receive two visibility
\* requests of opposite direction.  Stated for runs in which no poll has
\* completed and no native call failed.
C9_TwoTogglesOpposite ==
  \A i \in DOMAIN toggles :
    /\ i + 1 \in DOMAIN toggles
    /\ toggles[i].pc = "done"
    /\ toggles[i + 1].pc = "done"
    /\ lastPoll = "none"
    => {toggles[i].req, toggles[i + 1].req} = {"show", "hide"}

\* destroy() has been called (by the page's cleanup).
Destroyed == pagePc = "unmounted"

\* destroy() has been called and has cleared the running interval: the
\* queries still in flight are those that were in flight at the call.
DestroyedWithIntervalCleared == Destroyed /\ intervalId # 0 /\ ~timerOn

\* The step begins a poll tick: checkVisibility issues a new query.
TickBegins == polls' = Append(polls, "sent")

\* C11: once destroy() has been called, at any point of the coordinator's
\* lifetime, also before the constructor's initial visibility check has
\* resolved, no new poll tick begins.
C11_NoTickAfterDestroy == [][Destroyed => ~TickBegins]_vars

\* C12: a poll query in flight when destroy() is called has its result
\* discarded: completing after the teardown it neither changes isVisible nor
\* invokes onShow or onHide.
C12_InFlightResultDiscarded ==
  [][\A i \in DOMAIN polls :
       DestroyedWithIntervalCleared /\ PollCompletes(i) =>
         isVisible' = isVisible /\ fired' = <<>>]_vars

\* C13: poll ticks are strictly sequential: at most one poll-loop visibility
\* query is in flight at any time, a tick being skipped while the previous
\* tick's query is pending.
C13_OneQueryInFlight == Len(polls) <= 1

\* C14: whenever no poll query is in flight, the recorded isVisible equals
\* the value returned by the most recently issued poll query that succeeded
\* (false if none has succeeded): the result of an earlier-issued query never
\* overwrites that of a later-issued one.
C14_StateIsNewestRead == Len(polls) = 0 => isVisible = newest

\* The step is one of show() as called by toggle i: win.show() or
\* win.setFocus() returns or throws.
ShowStep(i) ==
  /\ toggles[i].pc \in {"show", "focus"}
  /\ toggles' = [toggles EXCEPT ![i].pc = toggles'[i].pc]
  /\ toggles'[i].pc # toggles[i].pc

\* C19: show() on an overlay that is already visible, natively and as
\* recorded, is a no-op for the state machine: isVisible stays true and
\* neither onShow nor onHide is invoked, by the call or by a poll tick that
\* then reads the window visible.
C19_ShowWhileVisibleIsNoOp ==
  [][nativeVisible /\ isVisible =>
       /\ \A i \in DOMAIN toggles :
            ShowStep(i) => isVisible' /\ nativeVisible' /\ fired' = <<>>
       /\ \A i \in DOMAIN polls :
            PollCompletes(i) /\ polls[i] = "T" => isVisible' /\ fired' = <<>>]_vars

\* A show() is under way, its win.show() pending, on an overlay that another
\* toggle() has shown and a poll tick has recorded as visible.
C19_Witness ==
  /\ nativeVisible
  /\ isVisible
  /\ pagePc = "mounted"
  /\ \E i, j \in DOMAIN toggles :
       /\ i # j
       /\ toggles[i].pc = "show"
       /\ toggles[j].req = "show"
       /\ toggles[j].pc = "done"

(***************************************************************************)
(* Claims about the shortcut dispatcher (checked under SpecKeys).          *)
(***************************************************************************)
\* The event at position i is a press of a key that is not held: the last
\* earlier event of the same id, if any, is not a press.
FreshPress(i) ==
  /\ events[i].state = "Pressed"
  /\ \A j \in 1..(i - 1) :
       events[j].id = events[i].id /\ events[j].state = "Pressed" =>
         \E k \in (j + 1)..(i - 1) :
           events[k].id = events[i].id /\ events[k].state = "Released"

Scenario ==
  <<[id |-> 1, state |-> "Pressed"], [id |-> 1, state |-> "Pressed"],
    [id |-> 1, state |-> "Released"], [id |-> 1, state |-> "Pressed"]>>

\* C10: toggle() is called exactly once at each press of a key that is not
\* held and at no other event; pressed(1), pressed(1), released(1),
\* pressed(1) calls it at the 1st and the 4th event.
C10_OneTogglePerPress ==
  /\ toggledAt = {i \in DOMAIN events : FreshPress(i)}
  /\ Len(toggles) = Cardinality(toggledAt)
  /\ events = Scenario => toggledAt = {1, 4}

\* The scenario has been delivered.
C10_Witness == events = Scenario /\ Len(toggles) = 2

\* The state of the last event delivered for id k, "none" when there is none.
LastEventOf(k) ==
  LET idx == {i \in DOMAIN events : events[i].id = k} IN
    IF idx = {}
      THEN "none"
      ELSE events[CHOOSE i \in idx : \A j \in idx : j <= i].state

\* C20: a released event removes the id from the down set whether or not it
\* was present, so after any event sequence an id is in the down set exactly
\* when the last event received for it was 'Pressed'.
C20_DownIsLastPressed == down = {k \in KeyIds : LastEventOf(k) = "Pressed"}

\* Key 1 was released while not down, pressed and released again; key 2 is
\* held.
C20_Witness ==
  /\ events = <<[id |-> 1, state |-> "Released"], [id |-> 1, state |-> "Pressed"],
                [id |-> 2, state |-> "Pressed"], [id |-> 1, state |-> "Released"]>>
  /\ down = {2}

\* C15: show(), hide() and toggle() never reject: when the native isVisible,
\* show, setFocus or hide call throws, the error is caught inside the
\* coordinator and the promise returned to the hotkey handler still resolves.
C15_ToggleNeverRejects ==
  \A i \in DOMAIN toggles :
    /\ togglePromise(toggles[i]) \in {Pending, Fulfilled(JsUndefined)}
    /\ toggles[i].pc = "failed" => togglePromise(toggles[i]) = Fulfilled(JsUndefined)

\* One toggle() has returned after its win.isVisible() threw, another after
\* its win.hide() threw.
C15_Witness ==
  /\ \E i \in DOMAIN toggles : toggles[i].pc = "failed" /\ toggles[i].saw = "X"
  /\ \E i \in DOMAIN toggles : toggles[i].pc = "failed" /\ toggles[i].req = "hide"

(***************************************************************************)
(* Claims about the registration of callbacks (checked under               *)
(* SpecCallbacks and SpecRegistered).                                      *)
(***************************************************************************)
\* The callback last registered for the slot of the direction `visible`.
LastRegisteredFor(visible) ==
  IF visible THEN lastRegistered.onShow ELSE lastRegistered.onHide

\* C21: after setOnShow(a) followed by setOnShow(b), and likewise for
\* setOnHide, the next transition in that direction invokes the callback
\* registered last, exactly once, and no callback registered before it:
\* registrations are never queued or combined.
C21_LastRegistrationWins ==
  [][\A i \in DOMAIN polls :
       (/\ PollCompletes(i)
        /\ polls[i] \in {"T", "F"}
        /\ ReadOf(i) # isVisible
        /\ LastRegisteredFor(ReadOf(i)) # NoCallback)
       => fired' = <<[slot |-> SlotName(ReadOf(i)), cb |-> LastRegisteredFor(ReadOf(i))]>>]_vars

\* The page has registered its onShow, OtherCallback was registered over it,
\* and a transition to visible has invoked OtherCallback.
C21_Witness ==
  /\ pagePc = "mounted"
  /\ lastRegistered.onShow = OtherCallback
  /\ fired = <<[slot |-> "onShow", cb |-> OtherCallback]>>

(***************************************************************************)
(* Claims about the hotkey handler and toggle() (checked under SpecKeys).  *)
(***************************************************************************)
\* The key k is held since the press that called the j-th toggle(): no
\* release of k has been delivered after it.
HeldSince(k, j) ==
  /\ events[TogglePosition(j)].id = k
  /\ \A q \in DOMAIN events :
       q > TogglePosition(j) => ~(events[q].id = k /\ events[q].state = "Released")

\* C22: the id is in the down set before toggle() is awaited: a 'Pressed'
\* event repeated for an id that is held, delivered while the toggle() of
\* the first press is still in flight, calls no second toggle().
C22_RepeatInFlightIgnored ==
  [][\A e \in HotkeyEvents :
       (/\ events' = Append(events, e)
        /\ e.state = "Pressed"
        /\ \E j \in DOMAIN toggles :
             /\ togglePromise(toggles[j]) = Pending
             /\ HeldSince(e.id, j))
       => toggles' = toggles /\ toggledAt' = toggledAt]_vars

\* Key 1 was pressed twice without a release while the toggle() of the first
\* press awaits its visibility read.
C22_Witness ==
  /\ events = <<[id |-> 1, state |-> "Pressed"], [id |-> 1, state |-> "Pressed"]>>
  /\ Len(toggles) = 1
  /\ toggles[1].pc = "read"
  /\ toggledAt = {1}

\* C26: a toggle() whose visibility read throws sends neither a show nor a
\* hide request and ends; and show() sends the focus request only once its
\* show request has completed successfully, never after it threw.
C26_NoRequestAfterThrow ==
  [][\A i \in DOMAIN toggles :
       /\ (toggles[i].pc = "read" /\ toggles'[i].saw = "X")
            => toggles'[i].req = "none" /\ toggles'[i].pc = "failed"
       /\ toggles[i].pc = "failed" => toggles'[i] = toggles[i]
       /\ (toggles[i].pc # "focus" /\ toggles'[i].pc = "focus")
            => toggles[i].pc = "show" /\ toggles[i].req = "show" /\ nativeVisible']_vars

\* One toggle() has ended on a read that threw, without a request; another
\* has ended on a show request that threw, without a focus request.
C26_Witness ==
  \E i, j \in DOMAIN toggles :
    /\ toggles[i] = [pc |-> "failed", saw |-> "X", req |-> "none"]
    /\ toggles[j] = [pc |-> "failed", saw |-> "F", req |-> "show"]

\* The slot whose callback the next invocation must be of, the last one
\* having been of `last`.
NextInvocation(last) == IF last = "onShow" THEN "onHide" ELSE "onShow"

\* C23: with both callbacks registered from the start and isVisible false
\* at first, the callback invocations alternate onShow, onHide, onShow, ...,
\* the first being onShow, whatever polls overlap or fail: every step that
\* invokes a callback invokes one, of the slot other than that of the
\* invocation before it.
C23_InvocationsAlternate ==
  [][fired' # <<>> =>
       Len(fired') = 1 /\ fired'[1].slot = NextInvocation(lastCallback)]_vars

\* onHide has just been invoked, after an onShow, while another visibility
\* query is in flight.
C23_Witness ==
  /\ fired = <<[slot |-> "onHide", cb |-> PageOnHide]>>
  /\ lastCallback = "onHide"
  /\ polls # <<>>

\* C24: a transition detected by a poll tick while the matching slot is
\* empty still updates isVisible and invokes nothing, and it is never
\* replayed: a callback is invoked only in a step that records a transition,
\* and it is the callback of the direction of that transition, so a callback
\* registered afterwards waits for the next transition.
C24_EmptySlotNotReplayed ==
  [][/\ \A i \in DOMAIN polls :
          (/\ PollCompletes(i)
           /\ polls[i] \in {"T", "F"}
           /\ ReadOf(i) # isVisible
           /\ SlotOf(ReadOf(i)) = NoCallback)
          => isVisible' = ReadOf(i) /\ fired' = <<>>
     /\ fired' # <<>> =>
          /\ isVisible' # isVisible
          /\ \A k \in DOMAIN fired' : fired'[k].slot = SlotName(isVisible')
     /\ lastRegistered' # lastRegistered =>
          isVisible' = isVisible /\ lastCallback' = lastCallback]_vars

\* The overlay was recorded visible while the onShow slot was empty; the
\* page has registered its callbacks since, the interval is running, and no
\* callback has ever been invoked.
C24_Witness ==
  /\ isVisible
  /\ pagePc = "mounted"
  /\ onShowCallback = PageOnShow
  /\ lastCallback = "none"
  /\ lastPoll = "ok"
  /\ timerOn

\* C25: when a callback throws during a poll tick, the tick absorbs the
\* exception: isVisible keeps the value just recorded, the poll loop goes
\* on (the interval is running after the tick, also when the tick was the
\* initial check), and a later tick that reads the same value invokes
\* nothing.
C25_CallbackThrowAbsorbed ==
  [][\A i \in DOMAIN polls :
       /\ (PollCompletes(i) /\ lastPoll' = "callback threw")
            => /\ polls[i] \in {"T", "F"}
               /\ isVisible' = ReadOf(i)
               /\ fired' # <<>>
               /\ timerOn' /\ intervalId' # 0
       /\ (/\ PollCompletes(i)
           /\ lastPoll = "callback threw"
           /\ polls[i] \in {"T", "F"}
           /\ ReadOf(i) = isVisible)
            => fired' = <<>> /\ isVisible' = isVisible]_vars

\* The onShow callback has thrown in a tick: the overlay is recorded visible
\* and the interval is running.
C25_Witness ==
  /\ lastPoll = "callback threw"
  /\ fired # <<>>
  /\ fired[1].slot = "onShow"
  /\ isVisible
  /\ timerOn

(***************************************************************************)
(* Claims about the callers of the commands (checked under SpecSelect,     *)
(* SpecLoad and SpecLog).                                                  *)
(***************************************************************************)
\* The selections whose bringWindowToFront has returned, true or false.
BringReturnedSlots ==
  {s \in Slots : cmds[s].pc = "returned" /\ cmds[s].out.state = "fulfilled"}

LoadsInFlight == {s \in Slots : cmds[s].pc \in {"invoking", "settled"}}

\* C28 as stated: in any interleaving of loadWindows() calls, isLoading is
\* true whenever a call is in flight and false once all have completed.
C28_LoadingWhileInFlight == isLoading = (LoadsInFlight # {})

\* The logger call of slot s has resumed with a transport failure of its
\* command.
LogFailedIn(s) ==
  /\ cmds[s].pc = "returned"
  /\ cmds[s].out.state = "fulfilled"
  /\ cmds[s].out.value.kind = "transport_error"

\* C29: a logger call issues at most one backend log command, and none
\* outside a Tauri context; and the step in which a logger call resumes
\* with its result, failed or not, starts no other logger call and sends no
\* command.
C29_LoggingIsBounded ==
  [][\A s \in Slots :
       /\ Len(cmds'[s].invoked) <= 1
       /\ ~inTauri => cmds'[s].invoked = <<>>
       /\ (cmds[s].pc = "settled" /\ cmds'[s].pc = "returned")
            => \A t \in Slots : cmds'[t].invoked = cmds[t].invoked
                                /\ (t # s => cmds'[t] = cmds[t])]_vars

\* The transport failed to deliver a log command, the failure was recorded
\* in the dev-errors store, and no other logger call has been made.
C29_Witness ==
  /\ inTauri
  /\ errors = <<"Failed to send log to Rust">>
  /\ \E s \in Slots : LogFailedIn(s) /\ \A t \in Slots \ {s} : cmds[t] = IdleCmd

====
